---- MODULE Spec2Model ----
(***************************************************************************)
(* Model of the marshalling core of native/explorer (datatypes.rs,         *)
(* lazyframe.rs): the temporal codecs between the Elixir calendar structs   *)
(* (ExDate, ExDateTime, ExTime) and the engine's epoch integers, the        *)
(* parquet compression mapping, and the shared dataframe resource handle.   *)
(*                                                                         *)
(* Integers of the model checker are 32 bits wide, so an i64 count of       *)
(* microseconds is held as the record [hi, sec, us] that stands for         *)
(*        (hi * 2^32 + sec) * 1_000_000 + us                                *)
(* where hi * 2^32 + sec is Rust's truncating quotient  n / 1_000_000  (sec *)
(* is its low 32-bit word read as an i32) and us is Rust's remainder        *)
(* n % 1_000_000, which carries the sign of n.                              *)
(***************************************************************************)
EXTENDS Integers, Sequences, FiniteSets, TLC

VARIABLES
    op,      \* the conversion performed by the last boundary call
    arg,     \* its argument
    ret,     \* its outcome: Return(value) or Panic
    origin,  \* Some(n) when arg is the value an earlier conversion made from n
    pending, \* the conversion the host has asked for and that has not run yet
    heap,    \* dataframe resources: handle -> interior DataFrame value
    calls,   \* per host thread: the dataframe call it is executing
    lazy,    \* lazy-frame resources: handle -> interior LazyFrame (its plan)
    exprs,   \* expression resources: handle -> interior Expr
    lfcalls, \* per host process: the lazy-frame call it is waiting for
    runq     \* per scheduler pool: the processes waiting for a scheduler

lfVars == <<lazy, exprs, lfcalls, runq>>

vars == <<op, arg, ret, origin, pending, heap, calls, lazy, exprs, lfcalls, runq>>

(***************************************************************************)
(* Option, and the two ways a conversion can end.                           *)
(***************************************************************************)
None == [some |-> FALSE]
Some(v) == [some |-> TRUE, val |-> v]

Panic == [outcome |-> "panic"]
Return(v) == [val |-> v, outcome |-> "return"]

\* Option::unwrap, followed by the rest of the conversion
Unwrap(o) == IF o.some THEN Return(o.val) ELSE Panic

(***************************************************************************)
(* Numbers written in the source.                                           *)
(***************************************************************************)
MICROSECONDS == 1000000
NANOS_PER_MICRO == 1000
SECONDS_IN_DAY == 86400
MAX_MICROS == 999999
PRECISION == 6
EPOCH_YEAR == 1970
\* chrono: 1970-01-01 is day 719163 of the common era (0001-01-01 is day 1)
EPOCH_DAYS_FROM_CE == 719163
\* chrono: the years a NaiveDate can hold
MAX_YEAR == 262143
\* chrono: a fraction of 1_000_000_000 ns or more stands for a leap second
NANOS_PER_SECOND == 1000000000

Abs(x) == IF x < 0 THEN -x ELSE x

(***************************************************************************)
(* chrono's proleptic Gregorian calendar.                                   *)
(***************************************************************************)
IsLeapYear(y) == (y % 4 = 0 /\ y % 100 # 0) \/ y % 400 = 0

DaysInMonth(y, m) ==
    IF m = 2 THEN (IF IsLeapYear(y) THEN 29 ELSE 28)
    ELSE IF m \in {4, 6, 9, 11} THEN 30
    ELSE 31

\* a from_ymd_opt that rolls a day past the end of the month into the next month
from_ymd_opt_lenient(y, m, d) ==
    IF -MAX_YEAR - 1 <= y /\ y <= MAX_YEAR /\ 1 <= m /\ m <= 12 /\ 1 <= d /\ d <= 31
    THEN Some(IF d <= DaysInMonth(y, m)
              THEN [year |-> y, month |-> m, day |-> d]
              ELSE IF m = 12
                   THEN [year |-> y + 1, month |-> 1, day |-> d - DaysInMonth(y, m)]
                   ELSE [year |-> y, month |-> m + 1, day |-> d - DaysInMonth(y, m)])
    ELSE None

\* NaiveDate::from_ymd_opt: None unless the fields form a date
from_ymd_opt(y, m, d) ==
    IF -MAX_YEAR - 1 <= y /\ y <= MAX_YEAR
       /\ 1 <= m /\ m <= 12
       /\ 1 <= d /\ d <= DaysInMonth(y, m)
    THEN Some([year |-> y, month |-> m, day |-> d])
    ELSE None

\* days of the year before the first of month m
DaysBeforeMonth(y, m) ==
    LET cum == <<0, 31, 59, 90, 120, 151, 181, 212, 243, 273, 304, 334>>
    IN cum[m] + (IF m > 2 /\ IsLeapYear(y) THEN 1 ELSE 0)

\* a day count that takes every fourth year for a leap year
num_days_from_ce_julian(d) ==
    LET y1 == d.year - 1
    IN y1 * 365 + (y1 \div 4) + DaysBeforeMonth(d.year, d.month) + d.day

\* Datelike::num_days_from_ce
num_days_from_ce(d) ==
    LET y1 == d.year - 1
    IN y1 * 365 + (y1 \div 4) - (y1 \div 100) + (y1 \div 400)
       + DaysBeforeMonth(d.year, d.month) + d.day

\* NaiveDate::from_num_days_from_ce_opt, by 400-year cycles
from_num_days_from_ce_opt(n) ==
    LET z == n + 305                       \* days since 0000-03-01
        era == z \div 146097
        doe == z - era * 146097
        yoe == (doe - (doe \div 1460) + (doe \div 36524) - (doe \div 146096)) \div 365
        doy == doe - (365 * yoe + (yoe \div 4) - (yoe \div 100))
        mp == (5 * doy + 2) \div 153
        d == doy - ((153 * mp + 2) \div 5) + 1
        m == IF mp < 10 THEN mp + 3 ELSE mp - 9
        y == yoe + era * 400 + (IF m <= 2 THEN 1 ELSE 0)
    IN IF -MAX_YEAR - 1 <= y /\ y <= MAX_YEAR
       THEN Some([year |-> y, month |-> m, day |-> d])
       ELSE None

\* NaiveDate::signed_duration_since(..).num_days()
DaysSince(d, e) == num_days_from_ce(d) - num_days_from_ce(e)

EpochDate == [year |-> EPOCH_YEAR, month |-> 1, day |-> 1]

\* NaiveTime::from_num_seconds_from_midnight_opt on values already below 2^31
NaiveTimeOpt(secs, nano) ==
    IF secs >= SECONDS_IN_DAY \/ nano >= 2 * NANOS_PER_SECOND
    THEN None
    ELSE Some([secs |-> secs, frac |-> nano])

\* NaiveTime::from_hms_micro_opt
from_hms_micro_opt(h, mi, s, micro) ==
    IF h >= 24 \/ mi >= 60 \/ s >= 60 \/ micro >= 2 * MICROSECONDS
    THEN None
    ELSE Some([secs |-> h * 3600 + mi * 60 + s, frac |-> micro * NANOS_PER_MICRO])

\* Timelike::hour / minute / second
Hour(t) == t.secs \div 3600
Minute(t) == (t.secs \div 60) % 60
Second(t) == t.secs % 60

\* NaiveDateTime::from_timestamp_opt
from_timestamp_opt(secs, nsecs) ==
    LET days == secs \div SECONDS_IN_DAY          \* div_euclid
        sod == secs % SECONDS_IN_DAY              \* rem_euclid
        date == from_num_days_from_ce_opt(days + EPOCH_DAYS_FROM_CE)
        time == NaiveTimeOpt(sod, nsecs)
    IN IF date.some /\ time.some
       THEN Some([date |-> date.val, time |-> time.val])
       ELSE None

(***************************************************************************)
(* i64 microsecond counts.                                                  *)
(***************************************************************************)
\* the i64 whose floor quotient by 1_000_000 is secs and whose floor
\* remainder is micros (0 <= micros), in the [hi, sec, us] form
I64OfSecsMicros(secs, micros) ==
    LET s == secs + (micros \div MICROSECONDS)
        u == micros % MICROSECONDS
    IN IF s < 0 /\ u > 0
       THEN [hi |-> 0, sec |-> s + 1, us |-> u - MICROSECONDS]
       ELSE [hi |-> 0, sec |-> s, us |-> u]

\* i64::signum
Signum(n) ==
    IF n.hi # 0 THEN (IF n.hi < 0 THEN -1 ELSE 1)
    ELSE IF n.sec # 0 THEN (IF n.sec < 0 THEN -1 ELSE 1)
    ELSE IF n.us # 0 THEN (IF n.us < 0 THEN -1 ELSE 1)
    ELSE 0

\* the whole-second quotient  n / 1_000_000  of a count with hi = 0
I64Quotient(n) == n.sec
\* n % 1_000_000
I64Remainder(n) == n.us

\* `x as u32` of a 32-bit word x: [big |-> the value is 2^31 or more, n |-> the
\* value below 2^31, or the value less 2^31]
AsU32(x) ==
    IF x >= 0 THEN [n |-> x, big |-> FALSE]
    ELSE [n |-> (x + 2147483647) + 1, big |-> TRUE]

CALENDAR_ISO == "Elixir.Calendar.ISO"

(***************************************************************************)
(* Date <-> i32 days since the epoch.                                       *)
(***************************************************************************)
\* arrow's date32_to_date: from_timestamp_opt(days * 86_400, 0), then .date();
\* the day of days * 86_400 seconds is days itself
days_to_date(ts) == Unwrap(from_num_days_from_ce_opt(ts + EPOCH_DAYS_FROM_CE))

\* impl From<NaiveDate> for ExDate
ExDateOfNaiveDate(d) ==
    [year |-> d.year, month |-> d.month, day |-> d.day, calendar |-> CALENDAR_ISO]

\* impl From<i32> for ExDate
ExDateFromI32(ts) ==
    LET d == days_to_date(ts)
    IN IF d.outcome = "panic" THEN Panic ELSE Return(ExDateOfNaiveDate(d.val))

\* impl From<ExDate> for i32
I32FromExDate(d) ==
    LET nd == from_ymd_opt(d.year, d.month, d.day)
    IN IF nd.some THEN Return(DaysSince(nd.val, EpochDate)) ELSE Panic

(***************************************************************************)
(* NaiveDateTime <-> i64 microseconds since the epoch.                      *)
(***************************************************************************)
\* let seconds = match sign { -1 => microseconds / 1_000_000 - 1, _ => .. }
TimestampSeconds(n) ==
    IF Signum(n) = -1 THEN I64Quotient(n) - 1 ELSE I64Quotient(n)

\* let remainder = match sign { -1 => 1_000_000 + microseconds % 1_000_000, .. }
TimestampRemainder(n) ==
    IF Signum(n) = -1 THEN MICROSECONDS + I64Remainder(n) ELSE I64Remainder(n)

\* let nanoseconds = remainder.abs() * 1_000
TimestampNanoseconds(n) == Abs(TimestampRemainder(n)) * NANOS_PER_MICRO

timestamp_to_datetime(n) ==
    Unwrap(from_timestamp_opt(TimestampSeconds(n), TimestampNanoseconds(n)))

\* NaiveDateTime::timestamp_subsec_micros
timestamp_subsec_micros(frac) == frac \div NANOS_PER_MICRO

\* the microseconds passed through as they come
microseconds_six_digits_unclamped(microseconds) == microseconds

\* fn microseconds_six_digits

microseconds_six_digits(microseconds) ==
    IF microseconds > MAX_MICROS THEN MAX_MICROS ELSE microseconds

\* impl From<NaiveDateTime> for ExDateTime
ExDateTimeOfNaiveDateTime(dt) ==
    [year |-> dt.date.year,
     month |-> dt.date.month, day |-> dt.date.day, calendar |-> CALENDAR_ISO,
     hour |-> Hour(dt.time), minute |-> Minute(dt.time), second |-> Second(dt.time),
     microsecond |->
        <<microseconds_six_digits(timestamp_subsec_micros(dt.time.frac)), PRECISION>>]

\* impl From<i64> for ExDateTime
ExDateTimeFromI64(n) ==
    LET dt == timestamp_to_datetime(n)
    IN IF dt.outcome = "panic" THEN Panic ELSE Return(ExDateTimeOfNaiveDateTime(dt.val))

\* impl From<ExDateTime> for NaiveDateTime, and the first half of
\* impl From<ExDateTime> for i64: from_ymd_opt(..).unwrap().and_hms_micro_opt(..).unwrap()
NaiveDateTimeFromExDateTime(dt) ==
    LET date == from_ymd_opt(dt.year, dt.month, dt.day)
        time == from_hms_micro_opt(dt.hour, dt.minute, dt.second, dt.microsecond[1])
    IN IF date.some /\ time.some
       THEN Return([date |-> date.val, time |-> time.val])
       ELSE Panic

\* impl From<ExDateTime> for i64.  duration.num_microseconds() is Some for
\* every date chrono can hold (262_143 years are less than 2^63 us), so the
\* millisecond arm is never taken.
I64FromExDateTime(dt) ==
    LET ndt == NaiveDateTimeFromExDateTime(dt)
    IN IF ndt.outcome = "panic" THEN Panic
       ELSE Return(I64OfSecsMicros(
                DaysSince(ndt.val.date, EpochDate) * SECONDS_IN_DAY + ndt.val.time.secs,
                ndt.val.time.frac \div NANOS_PER_MICRO))

(***************************************************************************)
(* NaiveTime <-> i64 microseconds since midnight.                           *)
(***************************************************************************)
\* arrow's time64us_to_time:
\*   NaiveTime::from_num_seconds_from_midnight_opt(
\*       (v / 1_000_000) as u32, (v % 1_000_000 * 1_000) as u32).expect(..)
timestamp_to_time(n) ==
    LET secs == AsU32(n.sec)          \* the cast keeps the low word only
        nano == AsU32(n.us * NANOS_PER_MICRO)
    IN IF secs.big \/ nano.big THEN Panic
       ELSE Unwrap(NaiveTimeOpt(secs.n, nano.n))

\* impl From<NaiveTime> for ExTime
ExTimeOfNaiveTime(t) ==
    [calendar |-> CALENDAR_ISO,
     hour |-> Hour(t), minute |-> Minute(t), second |-> Second(t),
     microsecond |->
        <<microseconds_six_digits(timestamp_subsec_micros(t.frac)), PRECISION>>]

\* impl From<i64> for ExTime
ExTimeFromI64(n) ==
    LET t == timestamp_to_time(n)
    IN IF t.outcome = "panic" THEN Panic ELSE Return(ExTimeOfNaiveTime(t.val))

\* impl From<ExTime> for i64
I64FromExTime(t) ==
    LET nt == from_hms_micro_opt(t.hour, t.minute, t.second, t.microsecond[1])
    IN IF nt.some
       THEN Return(I64OfSecsMicros(nt.val.secs, nt.val.frac \div NANOS_PER_MICRO))
       ELSE Panic

(***************************************************************************)
(* ExParquetCompression -> ParquetCompression.                              *)
(***************************************************************************)
Ok(v) == [val |-> v, ok |-> TRUE]
Err(e) == [ok |-> FALSE, err |-> e]

\* the level ranges of the engine's BrotliLevel, GzipLevel and ZstdLevel
BROTLI_MIN_LEVEL == 0
BROTLI_MAX_LEVEL == 11
GZIP_MIN_LEVEL == 0
GZIP_MAX_LEVEL == 10
ZSTD_MIN_LEVEL == 1
ZSTD_MAX_LEVEL == 22

\* the engine's error for a level outside MINIMUM_LEVEL..=MAXIMUM_LEVEL:
\* "valid compression range {min}..={max} exceeded."
InvalidParameter(min, max) == [min |-> min, max |-> max, kind |-> "InvalidParameter"]

LevelTryNew(level, min, max) ==
    IF min <= level /\ level <= max THEN Ok(level) ELSE Err(InvalidParameter(min, max))

BrotliLevel_try_new(level) == LevelTryNew(level, BROTLI_MIN_LEVEL, BROTLI_MAX_LEVEL)
\* a GzipLevel that stops at 9
GzipLevel_try_new_to_nine(level) == LevelTryNew(level, GZIP_MIN_LEVEL, GZIP_MAX_LEVEL - 1)
GzipLevel_try_new(level) == LevelTryNew(level, GZIP_MIN_LEVEL, GZIP_MAX_LEVEL)
ZstdLevel_try_new(level) == LevelTryNew(level, ZSTD_MIN_LEVEL, ZSTD_MAX_LEVEL)

\* the `?` of `Some(result) => Some(result?)`: From::from(engine error)
ExplorerErrorFrom(e) == [source |-> e]

\* an arm that drops a rejected level and goes on with the default
LeveledArmDefaulting(alg, level, tried) ==
    IF level.some /\ tried.ok
    THEN Ok([level |-> Some(tried.val), alg |-> alg])
    ELSE Ok([level |-> None, alg |-> alg])

\* one leveled arm of the match: level.map(try_new), then `?`
LeveledArm(alg, level, tried) ==
    IF ~level.some THEN Ok([level |-> None, alg |-> alg])
    ELSE IF tried.ok THEN Ok([level |-> Some(tried.val), alg |-> alg])
    ELSE Err(ExplorerErrorFrom(tried.err))

\* a mapping with two of the level-less arms exchanged
ParquetCompressionTryFromSwapped(value) ==
    CASE value.tag = "Snappy" -> Ok([level |-> None, alg |-> "Uncompressed"])
      [] value.tag = "Uncompressed" -> Ok([level |-> None, alg |-> "Snappy"])
      [] OTHER -> Ok([level |-> value.level, alg |-> value.tag])

\* impl TryFrom<ExParquetCompression> for ParquetCompression
ParquetCompressionTryFrom(value) ==
    CASE value.tag = "Brotli" ->
            LeveledArm("Brotli", value.level,
                       IF value.level.some THEN BrotliLevel_try_new(value.level.val) ELSE None)
      [] value.tag = "Gzip" ->
            LeveledArm("Gzip", value.level,
                       IF value.level.some THEN GzipLevel_try_new(value.level.val) ELSE None)
      [] value.tag = "Lz4raw" -> Ok([level |-> None, alg |-> "Lz4Raw"])
      [] value.tag = "Snappy" -> Ok([level |-> None, alg |-> "Snappy"])
      [] value.tag = "Uncompressed" -> Ok([level |-> None, alg |-> "Uncompressed"])
      [] value.tag = "Zstd" ->
            LeveledArm("Zstd", value.level,
                       IF value.level.some THEN ZstdLevel_try_new(value.level.val) ELSE None)

(***************************************************************************)
(* timestamp_to_datetime over the whole of i64.  The quotient n / 1_000_000 *)
(* of a count beyond 2^31 seconds is the pair [hi, sec] standing for        *)
(* hi * 2^32 + sec, with sec an i32.                                        *)
(***************************************************************************)
I64_MIN == [hi |-> -2147, sec |-> -2077252342, us |-> -775808]
I64_MAX == [hi |-> 2147, sec |-> 2077252342, us |-> 775807]

\* a <= b for counts in the [hi, sec, us] form
I64Leq(a, b) ==
    \/ a.hi < b.hi
    \/ a.hi = b.hi /\ a.sec < b.sec
    \/ a.hi = b.hi /\ a.sec = b.sec /\ a.us <= b.us

\* the count is an i64
InI64(hi, sec, us) ==
    LET n == [hi |-> hi, sec |-> sec, us |-> us]
    IN I64Leq(I64_MIN, n) /\ I64Leq(n, I64_MAX)

\* q - 1 on the pair [hi, sec], borrowing from hi when sec is i32::MIN
QuotientMinusOne(n) ==
    IF n.sec > -2147483647 - 1
    THEN [hi |-> n.hi, sec |-> n.sec - 1]
    ELSE [hi |-> n.hi - 1, sec |-> 2147483647]

\* seconds taken as (microseconds - 1_000_000) / 1_000_000: the subtraction
\* leaves i64 for the counts within a second of i64::MIN
TimestampSeconds64Shifted(n) ==
    LET q == IF Signum(n) = -1 THEN QuotientMinusOne(n) ELSE [hi |-> n.hi, sec |-> n.sec]
    IN [hi |-> q.hi, sec |-> q.sec, overflow |-> ~InI64(q.hi, q.sec, n.us)]

\* let seconds = match sign { -1 => microseconds / 1_000_000 - 1, _ => .. }:
\* the division cannot overflow, and the subtraction overflows only from
\* i64::MIN, which is hi = -2^31, sec = 0 of the pair
TimestampSeconds64(n) ==
    LET q == IF Signum(n) = -1 THEN QuotientMinusOne(n) ELSE [hi |-> n.hi, sec |-> n.sec]
    IN [hi |-> q.hi, sec |-> q.sec,
        overflow |-> Signum(n) = -1 /\ n.hi = -2147483647 - 1 /\ n.sec = 0]

\* nanoseconds.try_into() : Result<u32, _>, of a value below 2^31
TryIntoU32(x) == IF x >= 0 THEN Some(x) ELSE None

\* NaiveDateTime::from_timestamp_opt of the seconds [hi, sec]:
\* 2^32 = 49_710 * 86_400 + 23_296
from_timestamp_opt64(q, nsecs) ==
    LET rest == q.hi * 23296 + (q.sec % SECONDS_IN_DAY)
        days == q.hi * 49710 + (q.sec \div SECONDS_IN_DAY) + (rest \div SECONDS_IN_DAY)
        sod == rest % SECONDS_IN_DAY
        date == from_num_days_from_ce_opt(days + EPOCH_DAYS_FROM_CE)
        time == NaiveTimeOpt(sod, nsecs)
    IN IF date.some /\ time.some
       THEN Some([date |-> date.val, time |-> time.val])
       ELSE None

\* pub fn timestamp_to_datetime(microseconds: i64) -> NaiveDateTime
timestamp_to_datetime64(n) ==
    LET seconds == TimestampSeconds64(n)
        nanoseconds == TryIntoU32(TimestampNanoseconds(n))
    IN IF seconds.overflow \/ ~nanoseconds.some
       THEN Panic
       ELSE Unwrap(from_timestamp_opt64(seconds, nanoseconds.val))

(***************************************************************************)
(* The values the host passes across the boundary.                          *)
(***************************************************************************)
DayWindow == 370
SecWindow == 61
MaxWrap == 1
MaxLevel == 30

\* day counts around 1970-01-01, 1972-02-29, 2000-02-29, 1900-03-01,
\* 0000-01-01 and 2100-03-01
DayAnchors == {0, 789, 11016, -25508, -719528, 47541}
DayInputs == {a + k : a \in DayAnchors, k \in -DayWindow..DayWindow}

MicroSamples == {0, 1, 999, 1000, 500000, 999998, 999999}

\* seconds around the epoch, a day either side of it, 1972-02-29, 2000-03-01
\* and 1950-01-01
SecAnchors == {0, 86400, -86400, 68169600, 951868800, -631152000}
DateTimeInputs ==
    {I64OfSecsMicros(a + k, u) :
        a \in SecAnchors, k \in -SecWindow..SecWindow, u \in MicroSamples}

\* sign rule of Rust's / and %: the remainder has the sign of the dividend
IsI64(n) ==
    LET q == IF n.hi # 0 THEN n.hi ELSE n.sec
    IN (q > 0 => n.us >= 0) /\ (q < 0 => n.us <= 0)

TimeSecAnchors == {0, 3600, 43200, 86400}
TimeInputs ==
    {n \in [hi : -MaxWrap..MaxWrap,
            sec : {a + k : a \in TimeSecAnchors, k \in -SecWindow..SecWindow},
            us : {0, 1, 999999, -1, -999999}] : IsI64(n)}

HostDates ==
    [year : {-1, 0, 1900, 1970, 1972, 2000, 2023}, month : 0..13,
     day : 0..32, calendar : {CALENDAR_ISO}]

HostMicros == {<<0, 6>>, <<1, 6>>, <<999999, 6>>, <<1000000, 6>>, <<2000000, 6>>}

HostDateTimes ==
    [year : {1904, 1969, 1970, 1972, 2036}, month : {0, 1, 2, 4, 12, 13},
     day : {0, 1, 28, 29, 30, 31, 32}, calendar : {CALENDAR_ISO},
     hour : {0, 23, 24}, minute : {0, 59, 60}, second : {0, 59, 60},
     microsecond : HostMicros]

HostTimes ==
    [calendar : {CALENDAR_ISO}, hour : 0..24, minute : {0, 1, 59, 60},
     second : {0, 1, 59, 60}, microsecond : HostMicros]

\* native values with nanosecond fractions, leap seconds included
NanoSamples ==
    {0, 1, 499, 500, 999, 1000, 1499, 1500, 123456789, 999999000, 999999499,
     999999500, 999999999, 1000000000, 1000000999, 1999999999}

NativeTimes == [secs : {0, 59, 3599, 43200, 86399}, frac : NanoSamples]

NativeDateTimes ==
    [date : {[year |-> 1969, month |-> 12, day |-> 31],
             [year |-> 2000, month |-> 2, day |-> 29]},
     time : NativeTimes]

CompressionInputs ==
    [level : {None}, tag : {"Lz4raw", "Snappy", "Uncompressed"}]
    \cup [level : {None} \cup {Some(l) : l \in 0..MaxLevel}, tag : {"Brotli", "Gzip"}]
    \cup [level : {None} \cup {Some(l) : l \in -MaxLevel..MaxLevel}, tag : {"Zstd"}]

\* counts over the whole of i64: around zero, around 2^32 seconds either way,
\* and up to i64::MIN and i64::MAX
WideHi == {-2147, -2146, -1, 0, 1, 2146, 2147}
WideSec ==
    {-2147483647 - 1, -2077252343, -2077252342, -2077252341, -1, 0, 1,
     2077252341, 2077252342, 2077252343, 2147483647}
WideMicros ==
    {-999999, -775809, -775808, -775807, -1, 0, 1, 775806, 775807, 775808, 999999}
WideInputs ==
    {n \in [hi : WideHi, sec : WideSec, us : WideMicros] :
        IsI64(n) /\ InI64(n.hi, n.sec, n.us)}

\* the call the host is about to make
Requests ==
    [arg : DayInputs, fn : {"ExDateFromI32"}]
    \cup [arg : DateTimeInputs, fn : {"ExDateTimeFromI64"}]
    \cup [arg : TimeInputs, fn : {"ExTimeFromI64"}]
    \cup [arg : HostDates, fn : {"I32FromExDate"}]
    \cup [arg : HostDateTimes, fn : {"I64FromExDateTime"}]
    \cup [arg : HostTimes, fn : {"I64FromExTime"}]
    \cup [arg : NativeDateTimes, fn : {"ExDateTimeFromNaive"}]
    \cup [arg : NativeTimes, fn : {"ExTimeFromNaive"}]
    \cup [arg : CompressionInputs, fn : {"ParquetCompressionTryFrom"}]
    \cup [arg : WideInputs, fn : {"timestamp_to_datetime"}]

NoRequest == [fn |-> "none"]

(***************************************************************************)
(* The boundary calls.                                                      *)
(***************************************************************************)
Call(o, a, r, org) ==
    /\ op' = o
    /\ arg' = a
    /\ ret' = r
    /\ origin' = org
    /\ pending' = NoRequest
    /\ UNCHANGED <<heap, calls, lfVars>>

Requested(f) == pending.fn = f

\* an epoch integer is decoded into a calendar struct for the host
DecodeDate ==
    /\ Requested("ExDateFromI32")
    /\ Call("ExDateFromI32", pending.arg, ExDateFromI32(pending.arg), None)

DecodeDateTime ==
    /\ Requested("ExDateTimeFromI64")
    /\ Call("ExDateTimeFromI64", pending.arg, ExDateTimeFromI64(pending.arg), None)

DecodeTime ==
    /\ Requested("ExTimeFromI64")
    /\ Call("ExTimeFromI64", pending.arg, ExTimeFromI64(pending.arg), None)

\* the struct just decoded is passed back and encoded again
EncodeDecodedDate ==
    /\ op = "ExDateFromI32" /\ ret.outcome = "return"
    /\ Call("I32FromExDate", ret.val, I32FromExDate(ret.val), Some(arg))

EncodeDecodedDateTime ==
    /\ op = "ExDateTimeFromI64" /\ ret.outcome = "return"
    /\ Call("I64FromExDateTime", ret.val, I64FromExDateTime(ret.val), Some(arg))

EncodeDecodedTime ==
    /\ op = "ExTimeFromI64" /\ ret.outcome = "return"
    /\ Call("I64FromExTime", ret.val, I64FromExTime(ret.val), Some(arg))

\* the host passes a struct of its own making
EncodeHostDate ==
    /\ Requested("I32FromExDate")
    /\ Call("I32FromExDate", pending.arg, I32FromExDate(pending.arg), None)

EncodeHostDateTime ==
    /\ Requested("I64FromExDateTime")
    /\ Call("I64FromExDateTime", pending.arg, I64FromExDateTime(pending.arg), None)

EncodeHostTime ==
    /\ Requested("I64FromExTime")
    /\ Call("I64FromExTime", pending.arg, I64FromExTime(pending.arg), None)

\* a native value read from a series is handed to the host
ExposeNaiveDateTime ==
    /\ Requested("ExDateTimeFromNaive")
    /\ Call("ExDateTimeFromNaive", pending.arg,
            Return(ExDateTimeOfNaiveDateTime(pending.arg)), None)

ExposeNaiveTime ==
    /\ Requested("ExTimeFromNaive")
    /\ Call("ExTimeFromNaive", pending.arg, Return(ExTimeOfNaiveTime(pending.arg)), None)

\* a write call converts its compression option
ConvertCompression ==
    /\ Requested("ParquetCompressionTryFrom")
    /\ Call("ParquetCompressionTryFrom", pending.arg,
            Return(ParquetCompressionTryFrom(pending.arg)), None)

\* a datetime series value of any size is converted
DecodeWideTimestamp ==
    /\ Requested("timestamp_to_datetime")
    /\ Call("timestamp_to_datetime", pending.arg, timestamp_to_datetime64(pending.arg), None)

Init ==
    /\ pending \in Requests
    /\ op = "none"
    /\ arg = None
    /\ ret = Panic
    /\ origin = None
    /\ heap = <<>>
    /\ calls = <<>>
    /\ lazy = <<>>
    /\ exprs = <<>>
    /\ lfcalls = <<>>
    /\ runq = <<>>

Next ==
    \/ DecodeDate
    \/ DecodeDateTime
    \/ DecodeTime
    \/ EncodeDecodedDate
    \/ EncodeDecodedDateTime
    \/ EncodeDecodedTime
    \/ EncodeHostDate
    \/ EncodeHostDateTime
    \/ EncodeHostTime
    \/ ExposeNaiveDateTime
    \/ ExposeNaiveTime
    \/ ConvertCompression
    \/ DecodeWideTimestamp

Spec == Init /\ [][Next]_vars

(***************************************************************************)
(* Properties of the temporal codecs.                                       *)
(***************************************************************************)
RoundTripped(f) == op = f /\ origin.some

\* C1: Datetime round-trip.  Every microsecond count in the calendar range,
\* negative ones included, is decoded to an ExDateTime, and encoding that
\* ExDateTime returns the same count.
C1_DateTimeRoundTrip ==
    /\ op = "ExDateTimeFromI64" => ret.outcome = "return"
    /\ RoundTripped("I64FromExDateTime") => ret = Return(origin.val)

\* floor(n / 1_000_000) of a count with hi = 0
FloorSeconds(n) == IF n.us < 0 THEN n.sec - 1 ELSE n.sec

MinusOneMicrosecond == [hi |-> 0, sec |-> 0, us |-> -1]

\* C2: Negative-timestamp split.  For every negative n, timestamp_to_datetime
\* computes seconds s = floor(n / 1_000_000) and a remainder r with
\* s * 1_000_000 + r = n and 0 <= r < 1_000_000, so the calendar value is the
\* instant n; n = -1 gives 1969-12-31 23:59:59 with microsecond (999999, 6).
C2_NegativeSplit ==
    (op = "ExDateTimeFromI64" /\ Signum(arg) = -1) =>
        LET s == TimestampSeconds(arg)
            r == TimestampRemainder(arg)
        IN /\ 0 <= r /\ r < MICROSECONDS
           /\ s = FloorSeconds(arg)
           /\ I64OfSecsMicros(s, r) = arg
           /\ ret.outcome = "return"
           /\ I64FromExDateTime(ret.val) = Return(arg)
           /\ arg = MinusOneMicrosecond =>
                ret.val = [year |-> 1969, month |-> 12, day |-> 31,
                           calendar |-> CALENDAR_ISO, hour |-> 23, minute |-> 59, second |-> 59,
                           microsecond |-> <<999999, 6>>]

\* C3: Date round-trip.  Every in-range day count, of either sign, is decoded
\* to an ExDate, and encoding that ExDate returns the same day count.
C3_DateRoundTrip ==
    /\ op = "ExDateFromI32" => ret.outcome = "return"
    /\ RoundTripped("I32FromExDate") => ret = Return(origin.val)

\* a day count before the epoch went to an ExDate and came back
C3_Witness ==
    /\ RoundTripped("I32FromExDate")
    /\ origin.val < -DayWindow
    /\ arg.month = 2 /\ arg.day = 28
    /\ ret = Return(origin.val)

\* 0 <= n < 86_400_000_000
InTimeRange(n) == n.hi = 0 /\ 0 <= n.sec /\ n.sec < SECONDS_IN_DAY /\ n.us >= 0

\* C4: Time round-trip.  Every n with 0 <= n < 86_400_000_000 is decoded to an
\* ExTime whose encoding is n again, and every n outside that range is
\* rejected, never wrapped into a time of day.
C4_TimeRoundTripAndReject ==
    /\ (op = "ExTimeFromI64" /\ InTimeRange(arg)) => ret.outcome = "return"
    /\ (RoundTripped("I64FromExTime") /\ InTimeRange(origin.val)) =>
            ret = Return(origin.val)
    /\ (op = "ExTimeFromI64" /\ ~InTimeRange(arg)) => ret = Panic

\* the lengths of the months of the proleptic Gregorian year y
MonthLengths(y) ==
    LET feb == IF y % 400 = 0 THEN 29
               ELSE IF y % 100 = 0 THEN 28
               ELSE IF y % 4 = 0 THEN 29
               ELSE 28
    IN <<31, feb, 31, 30, 31, 30, 31, 31, 30, 31, 30, 31>>

IsRealDate(y, m, d) ==
    /\ m \in 1..12
    /\ d >= 1
    /\ d <= MonthLengths(y)[m]

\* C5: Impossible calendar dates are rejected, never normalized.  Encoding an
\* ExDate or ExDateTime whose year, month and day are no real date fails and
\* returns no epoch integer at all.
C5_ImpossibleDateRejected ==
    (op \in {"I32FromExDate", "I64FromExDateTime"}
        /\ ~IsRealDate(arg.year, arg.month, arg.day)) => ret = Panic

\* April 31st was passed in and the conversion failed
C5_Witness ==
    /\ op = "I32FromExDate"
    /\ arg.month = 4 /\ arg.day = 31
    /\ ret = Panic

\* the nanoseconds of the second held by the native value a struct was made of
NativeNanos ==
    CASE op = "ExDateTimeFromI64" -> timestamp_to_datetime(arg).val.time.frac
      [] op = "ExTimeFromI64" -> timestamp_to_time(arg).val.frac
      [] op = "ExDateTimeFromNaive" -> arg.time.frac
      [] op = "ExTimeFromNaive" -> arg.frac

\* C6: Precision clamp.  Every ExDateTime and ExTime made from a native value
\* has microsecond = (value, 6) with 0 <= value <= 999_999, and the value is
\* the nanoseconds truncated to whole microseconds whenever that is at most
\* 999_999.
C6_PrecisionClamp ==
    (op \in {"ExDateTimeFromI64", "ExTimeFromI64", "ExDateTimeFromNaive", "ExTimeFromNaive"}
        /\ ret.outcome = "return") =>
        LET value == ret.val.microsecond[1]
        IN /\ ret.val.microsecond[2] = 6
           /\ 0 <= value /\ value <= 999999
           /\ NativeNanos < NANOS_PER_SECOND =>
                /\ value * 1000 <= NativeNanos
                /\ NativeNanos < (value + 1) * 1000

\* a leap-second fraction was clamped
C6_Witness ==
    /\ op = "ExDateTimeFromNaive"
    /\ arg.time.frac = 1000000999
    /\ ret.val.microsecond = <<999999, 6>>

(***************************************************************************)
(* Properties of the compression mapping.                                   *)
(***************************************************************************)
Leveled == {"Brotli", "Gzip", "Zstd"}

\* the level range the engine accepts for a leveled algorithm
EngineAccepts(tag, level) ==
    CASE tag = "Brotli" -> BROTLI_MIN_LEVEL <= level /\ level <= BROTLI_MAX_LEVEL
      [] tag = "Gzip" -> GZIP_MIN_LEVEL <= level /\ level <= GZIP_MAX_LEVEL
      [] tag = "Zstd" -> ZSTD_MIN_LEVEL <= level /\ level <= ZSTD_MAX_LEVEL

Converted == op = "ParquetCompressionTryFrom"

\* C7: Compression level validation.  For Brotli, Gzip and Zstd a level that
\* is present and outside the engine's range makes the conversion return Err:
\* no engine value is produced, the level is not clamped, nothing panics.
C7_OutOfRangeLevelIsErr ==
    (Converted /\ arg.tag \in Leveled /\ arg.level.some
        /\ ~EngineAccepts(arg.tag, arg.level.val)) =>
        /\ ret.outcome = "return"
        /\ ~ret.val.ok

\* Zstd level 0 was refused
C7_Witness ==
    /\ Converted
    /\ arg = [level |-> Some(0), tag |-> "Zstd"]
    /\ ret.outcome = "return"
    /\ ~ret.val.ok

EngineName(tag) == IF tag = "Lz4raw" THEN "Lz4Raw" ELSE tag

\* C9: Tag-preserving mapping.  A successful conversion yields the engine
\* algorithm of the same name; Lz4Raw, Snappy and Uncompressed always succeed
\* and carry no level; Brotli, Gzip and Zstd succeed with no level when none is
\* given, and with exactly the given level when it is in range.
C9_TagPreserving ==
    Converted =>
        /\ ret.outcome = "return"
        /\ ret.val.ok => ret.val.val.alg = EngineName(arg.tag)
        /\ arg.tag \notin Leveled =>
                ret.val.ok /\ ret.val.val.level = None
        /\ (arg.tag \in Leveled /\ ~arg.level.some) =>
                ret.val.ok /\ ret.val.val.level = None
        /\ (arg.tag \in Leveled /\ arg.level.some
                /\ EngineAccepts(arg.tag, arg.level.val)) =>
                ret.val.ok /\ ret.val.val.level = Some(arg.level.val)

\* Brotli at its highest level was converted
C9_Witness ==
    /\ Converted
    /\ arg = [level |-> Some(BROTLI_MAX_LEVEL), tag |-> "Brotli"]
    /\ ret.val = Ok([level |-> Some(BROTLI_MAX_LEVEL), alg |-> "Brotli"])

(***************************************************************************)
(* The dataframe resource handle.                                           *)
(*                                                                         *)
(* ExDataFrame { resource: ResourceArc<ExDataFrameRef> } and                *)
(* ExDataFrameRef(pub DataFrame): the interior is a plain DataFrame with no *)
(* lock around it.  A call reaches it through Deref (&DataFrame) or         *)
(* clone_inner, and hands a result to the host through ExDataFrame::new,    *)
(* which allocates a new resource.  A DataFrame is modelled by the set of   *)
(* its columns, a handle by its index in heap.                              *)
(***************************************************************************)
MaxThreads == 2
MaxHandles == 2
MaxColumns == 1

Threads == 1..MaxThreads
Columns == 1..MaxColumns
DataFrames == SUBSET Columns

\* the registered dataframe calls that are modelled: one that reads and two
\* that the host sees as changing the dataframe
DfKinds == {"df_width", "df_put_column", "df_drop"}
IsMutation(kind) == kind \in {"df_put_column", "df_drop"}

\* what a call computes from the DataFrame it reads
Apply(kind, col, df) ==
    CASE kind = "df_width" -> Cardinality(df)
      [] kind = "df_put_column" -> df \cup {col}
      [] kind = "df_drop" -> df \ {col}

Idle == [phase |-> "idle"]
Borrowed(t) == calls[t].phase = "borrowed"

\* ExDataFrame::new: a fresh resource around a fully formed DataFrame
ExDataFrameNew(df) == Append(heap, df)

\* lf_collect / lf_fetch: the engine materializes a DataFrame, which is wrapped
LfCollect(t) ==
    /\ ~Borrowed(t)
    /\ Len(heap) < MaxHandles
    /\ \E df \in DataFrames : heap' = ExDataFrameNew(df)
    /\ UNCHANGED <<calls, op, arg, ret, origin, pending, lfVars>>

\* a call is entered with the handle h as its `data` argument: the argument
\* holds the resource, and the call looks at the interior through Deref
DfCallEnter(t, h, kind, col) ==
    /\ ~Borrowed(t)
    /\ h \in 1..Len(heap)
    /\ calls' = [calls EXCEPT ![t] =
                    [kind |-> kind, col |-> col, phase |-> "borrowed", handle |-> h,
                     seen |-> heap[h]]]
    /\ UNCHANGED <<heap, op, arg, ret, origin, pending, lfVars>>

\* a return that writes the result into the resource it was given
DfCallReturnInPlace(t) ==
    /\ Borrowed(t)
    /\ LET c == calls[t]
           result == Apply(c.kind, c.col, heap[c.handle])
       IN /\ calls' = [calls EXCEPT ![t] = [phase |-> "idle", result |-> result]]
          /\ IF IsMutation(c.kind)
             THEN heap' = [heap EXCEPT ![c.handle] = result]
             ELSE UNCHANGED heap
    /\ UNCHANGED <<op, arg, ret, origin, pending, lfVars>>

\* the call computes from the interior (Deref again, or clone_inner) and
\* returns: a number, or a new handle made by ExDataFrame::new
DfCallReturn(t) ==
    /\ Borrowed(t)
    /\ LET c == calls[t]
           result == Apply(c.kind, c.col, heap[c.handle])
       IN /\ calls' = [calls EXCEPT ![t] = [phase |-> "idle", result |-> result]]
          /\ IF IsMutation(c.kind)
             THEN Len(heap) < MaxHandles /\ heap' = ExDataFrameNew(result)
             ELSE UNCHANGED heap
    /\ UNCHANGED <<op, arg, ret, origin, pending, lfVars>>

InitDataFrame ==
    /\ pending = NoRequest
    /\ op = "none"
    /\ arg = None
    /\ ret = Panic
    /\ origin = None
    /\ heap = <<>>
    /\ calls = [t \in Threads |-> Idle]
    /\ lazy = <<>>
    /\ exprs = <<>>
    /\ lfcalls = <<>>
    /\ runq = <<>>

NextDataFrame ==
    \E t \in Threads :
        \/ LfCollect(t)
        \/ \E h \in 1..MaxHandles, kind \in DfKinds, col \in Columns :
                DfCallEnter(t, h, kind, col)
        \/ DfCallReturn(t)

SpecDataFrame == InitDataFrame /\ [][NextDataFrame]_vars

MaxProcs == 2
MaxLazy == 2
MaxExprs == 1
NormalSchedulers == 1
DirtyCpuSchedulers == 1

Procs == 1..MaxProcs
Pools == {"Normal", "DirtyCpu"}
PoolSize(p) == IF p = "Normal" THEN NormalSchedulers ELSE DirtyCpuSchedulers

\* the calls that return a lazy frame built from `data` alone
LfUnary ==
    {"lf_head", "lf_tail", "lf_select", "lf_drop", "lf_slice",
     "lf_rename_columns", "lf_pivot_longer"}
\* the calls that return a lazy frame built from `data` and expressions
LfWithExprs ==
    {"lf_filter_with", "lf_arrange_with", "lf_distinct", "lf_mutate_with",
     "lf_summarise_with", "lf_drop_nils"}
LfDeriving == LfUnary \cup LfWithExprs \cup {"lf_join"}
\* query materialization
LfMaterializing == {"lf_collect", "lf_fetch"}
\* the calls that return a plain value
LfInspecting == {"lf_describe_plan", "lf_names", "lf_dtypes"}
LfKinds == LfDeriving \cup LfMaterializing \cup LfInspecting

\* the calls that pass an engine error on with `?` (lf_describe_plan when
\* it is asked for the optimized plan)
LfFallible == LfMaterializing \cup LfInspecting
TakesExprs(fn) == fn \in LfWithExprs \cup {"lf_join"}

\* the schedule attribute of each call
ScheduleAllNormal(fn) == "Normal"
Schedule(fn) == IF fn \in LfMaterializing THEN "DirtyCpu" ELSE "Normal"

\* the engine method each deriving call applies to the cloned LazyFrame
EngineStep(fn) ==
    CASE fn = "lf_head" -> "limit"
      [] fn = "lf_tail" -> "tail"
      [] fn = "lf_select" -> "select"
      [] fn = "lf_drop" -> "select"
      [] fn = "lf_slice" -> "slice"
      [] fn = "lf_filter_with" -> "filter"
      [] fn = "lf_arrange_with" -> "sort_by_exprs"
      [] fn = "lf_distinct" -> "unique_stable"
      [] fn = "lf_mutate_with" -> "with_columns"
      [] fn = "lf_summarise_with" -> "groupby_stable"
      [] fn = "lf_rename_columns" -> "rename"
      [] fn = "lf_drop_nils" -> "drop_nulls"
      [] fn = "lf_pivot_longer" -> "melt"
      [] fn = "lf_join" -> "join"

\* let how = match how { "left" => .., "inner" => .., "outer" => .., "cross" => .. }
JoinTypeLenient(how) ==
    IF how \in {"left", "inner", "outer", "cross", "right"} THEN Some(how) ELSE None
JoinType(how) ==
    IF how \in {"left", "inner", "outer", "cross"} THEN Some(how) ELSE None

\* format!("Join method {how} not supported")
JoinNotSupported(how) == <<"Join method ", how, " not supported">>
\* ExplorerError::Other(message)
ExplorerErrorOther(message) == [other |-> message]
\* the engine's error, converted by `?`
PolarsError == ExplorerErrorFrom("PolarsError")

\* the plan of the LazyFrame a deriving call builds from its clones
DerivedPlan(fn, how, local) ==
    IF fn = "lf_join"
    THEN local.data \o local.other \o <<<<EngineStep(fn), how, local.expr>>>>
    ELSE Append(local.data, <<EngineStep(fn), "", local.expr>>)

\* LazyFrame::collect / fetch: the DataFrame the engine materializes is a
\* function of the plan, and is modelled as the plan it was materialized from
Materialized(fn, lf) == [materialized |-> lf, by |-> fn]

\* a scan made by lazyframe::io
ScanPlan == <<<<"scan", "", 0>>>>

JoinHows == {"left", "inner", "outer", "cross", "right", "semi", "Left", ""}

\* the call under test; beside it the processes make lf_collect
LazyRequests ==
    [fn : LfKinds \ {"lf_join"}, how : {""}] \cup [fn : {"lf_join"}, how : JoinHows]
Exercised == {pending.fn, "lf_collect"}

Queued(t) == lfcalls[t].phase = "queued"
Running(t) == lfcalls[t].phase = "running"
\* the schedulers of the pool p that are executing a call
Busy(p) == Cardinality({t \in Procs : Running(t) /\ lfcalls[t].pool = p})

\* the handles the calls in progress will still allocate
Outstanding(kinds) ==
    Cardinality({t \in Procs : lfcalls[t] # Idle /\ lfcalls[t].fn \in kinds})

\* ExLazyFrame::new: a fresh resource around the LazyFrame
ExLazyFrameNew(lf) == Append(lazy, lf)

\* a host process calls fn; the runtime queues it for the pool of fn
LfIssue(t, fn, data, other, expr) ==
    /\ lfcalls[t] = Idle
    /\ fn \in Exercised
    /\ data \in 1..Len(lazy)
    /\ IF fn = "lf_join" THEN other \in 1..Len(lazy) ELSE other = 0
    /\ IF TakesExprs(fn) THEN expr \in 1..Len(exprs) ELSE expr = 0
    /\ fn \in LfDeriving => Len(lazy) + Outstanding(LfDeriving) < MaxLazy
    /\ fn \in LfMaterializing => Len(heap) + Outstanding(LfMaterializing) < MaxHandles
    /\ lfcalls' = [lfcalls EXCEPT ![t] =
                    [fn |-> fn, phase |-> "queued",
                     how |-> IF fn = "lf_join" THEN pending.how ELSE "",
                     other |-> other, data |-> data, expr |-> expr]]
    /\ runq' = [runq EXCEPT ![Schedule(fn)] = Append(@, t)]
    /\ UNCHANGED <<op, arg, ret, origin, pending, heap, calls, lazy, exprs>>

\* the arguments of the call of t, as the host passed them
CallOf(t) ==
    [fn |-> lfcalls[t].fn, how |-> lfcalls[t].how, other |-> lfcalls[t].other,
     data |-> lfcalls[t].data, expr |-> lfcalls[t].expr]

\* clone_inner of every handle among the arguments
CloneInner(c) ==
    [other |-> IF c.other = 0 THEN <<>> ELSE lazy[c.other],
     data |-> lazy[c.data],
     expr |-> IF c.expr = 0 THEN 0 ELSE exprs[c.expr]]

\* a free scheduler of the pool p takes its first process and enters the
\* call: lf_join matches `how` first and returns its error at once; every
\* call then clones the interior of its handles
LfStart(p) ==
    /\ Busy(p) < PoolSize(p)
    /\ runq[p] # <<>>
    /\ LET t == Head(runq[p])
           c == CallOf(t)
       IN /\ runq' = [runq EXCEPT ![p] = Tail(@)]
          /\ IF c.fn = "lf_join" /\ ~JoinType(c.how).some
             THEN /\ lfcalls' = [lfcalls EXCEPT ![t] = Idle]
                  /\ ret' = Return(Err(ExplorerErrorOther(JoinNotSupported(c.how))))
             ELSE /\ lfcalls' = [lfcalls EXCEPT ![t] =
                                    [fn |-> c.fn, phase |-> "running", how |-> c.how,
                                     other |-> c.other, local |-> CloneInner(c),
                                     data |-> c.data, expr |-> c.expr,
                                     pool |-> p]]
                  /\ UNCHANGED ret
    /\ UNCHANGED <<op, arg, origin, pending, heap, calls, lazy, exprs>>

\* the call of the host process t returns r
Returned(t, r) ==
    /\ lfcalls' = [lfcalls EXCEPT ![t] = Idle]
    /\ ret' = Return(r)
    /\ UNCHANGED <<op, arg, origin, pending, calls, exprs, runq>>

\* a return that writes the LazyFrame it built into the resource of `data`
LfFinishInPlace(t) ==
    /\ Running(t)
    /\ LET c == CallOf(t)
           local == lfcalls[t].local
       IN \/ /\ c.fn \in LfDeriving
             /\ lazy' = [lazy EXCEPT ![c.data] = DerivedPlan(c.fn, c.how, local)]
             /\ Returned(t, Ok([lazyframe |-> c.data]))
             /\ UNCHANGED heap
          \/ /\ c.fn \in LfMaterializing
             /\ heap' = ExDataFrameNew(Materialized(c.fn, local.data))
             /\ Returned(t, Ok([dataframe |-> Len(heap) + 1]))
             /\ UNCHANGED lazy
          \/ /\ c.fn \in LfInspecting
             /\ Returned(t, Ok([plain |-> local.data]))
             /\ UNCHANGED <<heap, lazy>>
          \/ /\ c.fn \in LfFallible
             /\ Returned(t, Err(PolarsError))
             /\ UNCHANGED <<heap, lazy>>

\* the call works on its clones and returns: a new lazy-frame handle made by
\* ExLazyFrame::new, a new dataframe handle made by ExDataFrame::new, a plain
\* value read off the plan, or the engine's error
LfFinish(t) ==
    /\ Running(t)
    /\ LET c == CallOf(t)
           local == lfcalls[t].local
       IN \/ /\ c.fn \in LfDeriving
             /\ lazy' = ExLazyFrameNew(DerivedPlan(c.fn, c.how, local))
             /\ Returned(t, Ok([lazyframe |-> Len(lazy) + 1]))
             /\ UNCHANGED heap
          \/ /\ c.fn \in LfMaterializing
             /\ heap' = ExDataFrameNew(Materialized(c.fn, local.data))
             /\ Returned(t, Ok([dataframe |-> Len(heap) + 1]))
             /\ UNCHANGED lazy
          \/ /\ c.fn \in LfInspecting
             /\ Returned(t, Ok([plain |-> local.data]))
             /\ UNCHANGED <<heap, lazy>>
          \/ /\ c.fn \in LfFallible
             /\ Returned(t, Err(PolarsError))
             /\ UNCHANGED <<heap, lazy>>

InitLazyFrame ==
    /\ pending \in LazyRequests
    /\ op = "none"
    /\ arg = None
    /\ ret = Panic
    /\ origin = None
    /\ heap = <<>>
    /\ calls = <<>>
    /\ lazy = <<ScanPlan>>
    /\ exprs = [e \in 1..MaxExprs |-> e]
    /\ lfcalls = [t \in Procs |-> Idle]
    /\ runq = [p \in Pools |-> <<>>]

NextLazyFrame ==
    \/ \E t \in Procs, fn \in Exercised :
            \E data \in 1..Len(lazy),
               other \in IF fn = "lf_join" THEN 1..Len(lazy) ELSE {0},
               expr \in IF TakesExprs(fn) THEN 1..Len(exprs) ELSE {0} :
                    LfIssue(t, fn, data, other, expr)
    \/ \E p \in Pools : LfStart(p)
    \/ \E t \in Procs : LfFinish(t)

SpecLazyFrame == InitLazyFrame /\ [][NextLazyFrame]_vars

(***************************************************************************)
(* Properties of the lazy-frame calls.                                      *)
(***************************************************************************)
\* the call of t returns in this step
Returns(t) == Running(t) /\ lfcalls'[t] = Idle

\* C11: Handle isolation.  No step of any lazy-frame call, overlapping calls
\* on one handle included, changes the interior of an existing lazy-frame or
\* expression handle; a deriving call that succeeds returns a handle that did
\* not exist before, distinct from its inputs and holding the plan built from
\* the inputs' interiors, and the inputs are still there; the other calls
\* create no lazy-frame handle.
C11_HandleIsolation ==
    [][/\ Len(lazy') >= Len(lazy)
       /\ \A h \in 1..Len(lazy) : lazy'[h] = lazy[h]
       /\ exprs' = exprs
       /\ \A t \in Procs :
            Returns(t) =>
                LET c == CallOf(t)
                    new == Len(lazy) + 1
                IN IF c.fn \in LfDeriving
                   THEN /\ ret' = Return(Ok([lazyframe |-> new]))
                        /\ new \notin {c.data, c.other}
                        /\ DOMAIN lazy' = 1..new
                        /\ lazy'[new] = DerivedPlan(c.fn, c.how, CloneInner(c))
                        /\ lfcalls[t].local = CloneInner(c)
                   ELSE lazy' = lazy]_vars

\* lf_collect is still inside handle 1 while a deriving call on the same
\* handle has returned handle 2, and handle 1 holds what it held
C11_Witness ==
    \E t \in Procs :
        /\ Running(t) /\ lfcalls[t].fn = "lf_collect" /\ lfcalls[t].data = 1
        /\ pending.fn \in LfWithExprs
        /\ ret = Return(Ok([lazyframe |-> 2]))
        /\ Len(lazy) = 2
        /\ lazy[1] = ScanPlan
        /\ lazy[2] = Append(lazy[1], <<EngineStep(pending.fn), "", exprs[1]>>)
        /\ lfcalls[t].local.data = lazy[1]

\* The calls that only build or read a plan return in bounded time, and a
\* normal scheduler that is free takes the next waiting process; nothing is
\* assumed of how long a materialization takes, nor of the dirty schedulers.
SpecLazyFrameFair ==
    /\ SpecLazyFrame
    /\ WF_vars(LfStart("Normal"))
    /\ \A t \in Procs : WF_vars(LfFinish(t) /\ lfcalls[t].fn \notin LfMaterializing)

\* C12: Heavy-pool dispatch.  lf_collect and lf_fetch always execute on a
\* dirty CPU scheduler and every other lazy-frame call on a normal one; and a
\* short call that is waiting always gets to run and return, however long
\* the materializations running on the dirty pool take, even if they never end.
C12_HeavyPoolDispatch ==
    /\ [](\A t \in Procs :
            Running(t) =>
                lfcalls[t].pool =
                    IF lfcalls[t].fn \in LfMaterializing THEN "DirtyCpu" ELSE "Normal")
    /\ \A t \in Procs :
            (Queued(t) /\ lfcalls[t].fn \notin LfMaterializing) ~> (lfcalls[t] = Idle)

\* lf_collect occupies a dirty scheduler and, on the same handle, a short
\* call is executing on a normal scheduler
C12_Witness ==
    \E t1 \in Procs, t2 \in Procs :
        /\ Running(t1) /\ lfcalls[t1].fn = "lf_collect"
        /\ lfcalls[t1].pool = "DirtyCpu"
        /\ Running(t2) /\ lfcalls[t2].fn \in {"lf_describe_plan", "lf_names", "lf_select"}
        /\ lfcalls[t2].pool = "Normal"
        /\ lfcalls[t2].data = lfcalls[t1].data

(***************************************************************************)
(* Failures at the boundary.                                                *)
(***************************************************************************)
\* the conversions of arguments the host made itself
HostArgumentConversions ==
    {"I32FromExDate", "I64FromExDateTime", "I64FromExTime", "ParquetCompressionTryFrom"}

\* C13: Typed, recoverable failures.  Whatever the host passes (an impossible
\* date or time of day in an ExDate, ExDateTime or ExTime, a compression level
\* out of range), the conversion ends by returning, with an Err(ExplorerError)
\* where it fails; it never ends in a panic.
C13_FailuresAreErr ==
    (op \in HostArgumentConversions /\ ~origin.some) => ret.outcome = "return"

\* the call of t, an lf_join, ends in this step
JoinEnds(t) == lfcalls[t] # Idle /\ lfcalls[t].fn = "lf_join" /\ lfcalls'[t] = Idle

\* C14: lf_join method validation.  An lf_join returns a new lazy-frame handle
\* exactly when `how` is "left", "inner", "outer" or "cross".  For any other
\* string it returns the error "Join method <how> not supported" straight from
\* the match, before any clone_inner: the call never held a clone, no handle
\* is created and no interior changes.
C14_JoinMethodValidation ==
    [][\A t \in Procs :
        JoinEnds(t) =>
            IF lfcalls[t].how \in {"left", "inner", "outer", "cross"}
            THEN /\ ret' = Return(Ok([lazyframe |-> Len(lazy) + 1]))
                 /\ Len(lazy') = Len(lazy) + 1
            ELSE /\ ret' = Return(Err([other |->
                                <<"Join method ", lfcalls[t].how, " not supported">>]))
                 /\ Queued(t)
                 /\ "local" \notin DOMAIN lfcalls[t]
                 /\ lazy' = lazy
                 /\ exprs' = exprs
                 /\ heap' = heap]_vars

\* a join by "semi" was refused and the only lazy frame is the scan, untouched
C14_Witness ==
    /\ pending = [fn |-> "lf_join", how |-> "semi"]
    /\ ret = Return(Err([other |-> <<"Join method ", "semi", " not supported">>]))
    /\ lazy = <<ScanPlan>>
    /\ \A t \in Procs : lfcalls[t] = Idle

(***************************************************************************)
(* Arithmetic of the timestamp split.                                       *)
(***************************************************************************)
\* C15: No arithmetic failure in the timestamp split.  For every i64 count of
\* microseconds, i64::MIN and i64::MAX included, the seconds of
\* timestamp_to_datetime are computed without overflow and the nanoseconds lie
\* in 0..1_000_000_000, so that their conversion to u32 succeeds; where the
\* function fails at all, it is from_timestamp_opt that has no such instant.
C15_SplitArithmetic ==
    op = "timestamp_to_datetime" =>
        LET seconds == TimestampSeconds64(arg)
            nanoseconds == TimestampNanoseconds(arg)
        IN /\ ~seconds.overflow
           /\ 0 <= nanoseconds /\ nanoseconds <= NANOS_PER_SECOND
           /\ TryIntoU32(nanoseconds).some
           /\ ret = Panic => ~from_timestamp_opt64(seconds, nanoseconds).some

\* i64::MIN was split: one second below its quotient, 224_192 microseconds
\* into it
C15_Witness ==
    /\ op = "timestamp_to_datetime"
    /\ arg = I64_MIN
    /\ TimestampSeconds64(arg) = [hi |-> -2147, sec |-> -2077252343, overflow |-> FALSE]
    /\ TimestampNanoseconds(arg) = 224192000

====
